---- MODULE Spec2Model ----
(***************************************************************************)
(* A model of xapkInstaller.py: the split selection (build_apkm_config,    *)
(* build_xapk_config, config_abi, config_drawable, config_language) and    *)
(* the install engine (install_apk, install_multiple, install_base,        *)
(* uninstall, pull_apk, restore, main) driven by device-bridge responses.  *)
(*                                                                         *)
(* A file name or split id is the sequence of its dot-separated tokens:    *)
(* "split_config.en.apk" is <<"split_config", "en", "apk">>.               *)
(***************************************************************************)
EXTENDS Integers, Sequences, FiniteSets, TLC

VARIABLES sel, stack, cmd, ret, hist

vars == <<sel, stack, cmd, ret, hist>>

(***************************************************************************)
(* Bounds of the model.                                                    *)
(***************************************************************************)
MaxCands == 3

(***************************************************************************)
(* Module constants of the program.                                        *)
(***************************************************************************)
_abi == <<"armeabi_v7a", "arm64_v8a", "armeabi", "x86_64", "x86", "mips64", "mips">>

_language == <<"ar", "bn", "de", "en", "et", "es", "fr", "hi", "in", "it",
               "ja", "ko", "ms", "my", "nl", "pt", "ru", "sv", "th", "tl",
               "tr", "vi", "zh">>

_drawableList == <<"xxxhdpi", "xxhdpi", "xhdpi", "hdpi", "tvdpi", "mdpi", "ldpi", "nodpi">>

Range(s) == {s[k] : k \in 1..Len(s)}

(***************************************************************************)
(* String helpers, at the granularity of dot-separated tokens.             *)
(***************************************************************************)
\* a variant that leaves the hyphens of an ABI name in place
ReplaceNothing(tok) == tok

\* str.replace('-', '_') on the ABI names a device reports.
Replace(tok) ==
    CASE tok = "arm64-v8a"   -> "arm64_v8a"
      [] tok = "armeabi-v7a" -> "armeabi_v7a"
      [] tok = "x86-64"      -> "x86_64"
      [] OTHER               -> tok

\* tok.endswith("dpi"), over the tokens that occur in names.
EndsWithDpi(tok) == tok \in Range(_drawableList)

\* name.find("dpi.apk") >= 0
FindDpiApk(name) ==
    \E k \in 1..(Len(name) - 1) : EndsWithDpi(name[k]) /\ name[k + 1] = "apk"

\* a variant that takes only the split_config files for .apk files
IsSplitConfigApk(name) == Len(name) >= 2 /\ name[1] = "split_config" /\ name[Len(name)] = "apk"

\* name.endswith(".apk")
EndsWithApk(name) == Len(name) >= 2 /\ name[Len(name)] = "apk"

\* f"split_config.{x}.apk" and f"config.{x}"
SplitConfigApk(x) == <<"split_config", x, "apk">>
ConfigId(x) == <<"config", x>>

(***************************************************************************)
(* dict helpers: a dict is a function from its keys.                       *)
(***************************************************************************)
Put(d, k, v) == [x \in (DOMAIN d) \cup {k} |-> IF x = k THEN v ELSE d[x]]

\* dict.get(k) is truthy: the key is present and its value is not empty.
Get(d, k) == k \in DOMAIN d /\ d[k] # <<>>

(***************************************************************************)
(* Device.getdrawable: the density bucket list of a dpi, None when the     *)
(* dpi falls in no range (the property then returns None).                 *)
(***************************************************************************)
None == <<"None">>

\* a variant that rounds the dpi down: int(dpi / 40), for x = dpi + 39
IntDiv40Floor(x) == (x - 39) \div 40

\* int((dpi + 39) / 40): float division, truncated toward zero.
IntDiv40(x) == IF x >= 0 THEN x \div 40 ELSE -((-x) \div 40)

getdrawable(dpi) ==
    LET d == IntDiv40(dpi + 39) IN
    IF 0 <= d /\ d <= 3 THEN <<"ldpi">>
    ELSE IF 3 < d /\ d <= 4 THEN <<"mdpi">>
    ELSE IF 4 < d /\ d <= 6 THEN <<"tvdpi", "hdpi">>
    ELSE IF 6 < d /\ d <= 8 THEN <<"xhdpi">>
    ELSE IF 8 < d /\ d <= 12 THEN <<"xxhdpi">>
    ELSE IF 12 < d /\ d <= 16 THEN <<"xxxhdpi">>
    ELSE None

(***************************************************************************)
(* build_apkm_config: one pass over the archive's name list.  The result   *)
(* is [config, install], or Raised when iterating device.drawable = None   *)
(* raises TypeError.                                                       *)
(***************************************************************************)
Raised == [raised |-> TRUE]

RECURSIVE DrawableLoop(_, _, _, _)
DrawableLoop(config, i, drawable, k) ==
    IF k > Len(drawable) THEN config
    ELSE DrawableLoop(IF i = SplitConfigApk(drawable[k])
                      THEN Put(config, "drawable", i) ELSE config,
                      i, drawable, k + 1)

ApkmStep(device, i, config, install) ==
    LET abi      == {SplitConfigApk(a) : a \in Range(_abi)}
        language == {SplitConfigApk(l) : l \in Range(_language)}
        c1 == IF i = SplitConfigApk(Replace(device.abi))
              THEN Put(config, "abi", i) ELSE config
        c2 == DrawableLoop(c1, i, device.drawable, 1)
    IN  IF i = SplitConfigApk(device.locale)
        THEN [config |-> Put(c2, "language", <<i>> \o c2["language"]), install |-> install]
        ELSE IF i \in abi \/ FindDpiApk(i)
        THEN [config |-> Put(c2, i[2], i), install |-> install]
        ELSE IF i \in language
        THEN [config |-> Put(c2, "language", Append(c2["language"], i)), install |-> install]
        ELSE IF EndsWithApk(i)
        THEN [config |-> c2, install |-> Append(install, i)]
        ELSE [config |-> c2, install |-> install]

RECURSIVE ApkmLoop(_, _, _, _, _)
ApkmLoop(device, file_list, k, config, install) ==
    IF k > Len(file_list) THEN [config |-> config, install |-> install]
    ELSE LET r == ApkmStep(device, file_list[k], config, install)
         IN  ApkmLoop(device, file_list, k + 1, r.config, r.install)

build_apkm_config(device, file_list, install) ==
    IF file_list # <<>> /\ device.drawable = None THEN Raised
    ELSE ApkmLoop(device, file_list, 1, [x \in {"language"} |-> <<>>], install)

(***************************************************************************)
(* build_xapk_config: one pass over the descriptor's split_apks, each a    *)
(* dict [id, file].  The density test compares the dict itself with a      *)
(* file name, which is never equal.                                        *)
(***************************************************************************)
DictEqualsStr(d, s) == FALSE

RECURSIVE XapkDrawableLoop(_, _, _, _)
XapkDrawableLoop(config, i, drawable, k) ==
    IF k > Len(drawable) THEN config
    ELSE XapkDrawableLoop(IF DictEqualsStr(i, SplitConfigApk(drawable[k]))
                          THEN Put(config, "drawable", i) ELSE config,
                          i, drawable, k + 1)

XapkStep(device, i, config, install) ==
    LET abi      == {ConfigId(a) : a \in Range(_abi)}
        language == {ConfigId(l) : l \in Range(_language)}
        c1 == IF i.id = ConfigId(Replace(device.abi))
              THEN Put(config, "abi", i.file) ELSE config
        c2 == XapkDrawableLoop(c1, i, device.drawable, 1)
    IN  IF i.id = ConfigId(device.locale)
        THEN [config |-> Put(c2, "language", <<i.file>> \o c2["language"]), install |-> install]
        ELSE IF i.id \in abi \/ EndsWithDpi(i.id[Len(i.id)])
        THEN [config |-> Put(c2, i.id[2], i.file), install |-> install]
        ELSE IF i.id \in language
        THEN [config |-> Put(c2, "language", Append(c2["language"], i.file)), install |-> install]
        ELSE [config |-> c2, install |-> Append(install, i.file)]

RECURSIVE XapkLoop(_, _, _, _, _)
XapkLoop(device, split_apks, k, config, install) ==
    IF k > Len(split_apks) THEN [config |-> config, install |-> install]
    ELSE LET r == XapkStep(device, split_apks[k], config, install)
         IN  XapkLoop(device, split_apks, k + 1, r.config, r.install)

build_xapk_config(device, split_apks, install) ==
    IF split_apks # <<>> /\ device.drawable = None THEN Raised
    ELSE XapkLoop(device, split_apks, 1, [x \in {"language"} |-> <<>>], install)

(***************************************************************************)
(* config_abi, config_drawable, config_language: each appends at most one  *)
(* file to the install list.                                               *)
(***************************************************************************)
RECURSIVE FirstKey(_, _, _)
\* the first key of keys[k..] that config.get() finds, or None
FirstKey(config, keys, k) ==
    IF k > Len(keys) THEN None
    ELSE IF Get(config, keys[k]) THEN <<keys[k]>>
    ELSE FirstKey(config, keys, k + 1)

\* a variant that walks abilist without looking for the primary ABI first
config_abi_walk(config, install, abilist) ==
    LET hit == FirstKey(config, [k \in 1..Len(abilist) |-> Replace(abilist[k])], 1)
    IN  IF hit = None THEN install ELSE Append(install, config[hit[1]])

config_abi(config, install, abilist) ==
    IF Get(config, "abi") THEN Append(install, config["abi"])
    ELSE LET hit == FirstKey(config, [k \in 1..Len(abilist) |-> Replace(abilist[k])], 1)
         IN  IF hit = None THEN install ELSE Append(install, config[hit[1]])

config_drawable(config, install) ==
    IF Get(config, "drawable") THEN Append(install, config["drawable"])
    ELSE LET hit == FirstKey(config, _drawableList, 1)
         IN  IF hit = None THEN install ELSE Append(install, config[hit[1]])

\* a variant that takes the last language pack found instead of the first
config_language_last(config, install) ==
    IF Get(config, "language")
    THEN Append(install, config["language"][Len(config["language"])])
    ELSE install

config_language(config, install) ==
    IF Get(config, "language") THEN Append(install, config["language"][1])
    ELSE install

(***************************************************************************)
(* The split selection as a state machine: the steps install_apkm and      *)
(* install_xapk take between reading the candidates and handing the        *)
(* install list to install_multiple.                                       *)
(***************************************************************************)
Device(abi, abilist, dpi, locale) ==
    [abi |-> abi, abilist |-> abilist, dpi |-> dpi,
     drawable |-> getdrawable(dpi), locale |-> locale]

\* the candidate artifacts, by tag; "base" is the unflagged base package
Tags == {"base", "arm64_v8a", "armeabi_v7a", "xxhdpi", "hdpi", "tvdpi", "en", "fr", "pl"}

ApkmName(t) == IF t = "base" THEN <<"base", "apk">> ELSE SplitConfigApk(t)

XapkEntry(t) ==
    IF t = "base" THEN [id |-> <<"base">>, file |-> <<"base", "apk">>]
    ELSE [id |-> ConfigId(t), file |-> <<"config", t, "apk">>]

Profiles ==
    {Device(a[1], a[2], d, l) :
        a \in {<<"arm64-v8a", <<"arm64-v8a", "armeabi-v7a", "armeabi">>>>,
               <<"arm64-v8a", <<"armeabi-v7a", "armeabi", "arm64-v8a">>>>,
               <<"x86", <<"x86", "armeabi-v7a">>>>},
        d \in {240, 420, 700},
        l \in {"en", "pt", "pl"}}

\* the duplicate-free sequences over S of length at most n
RECURSIVE SeqsUpTo(_, _)
SeqsUpTo(S, n) ==
    IF n = 0 THEN {<<>>}
    ELSE LET shorter == SeqsUpTo(S, n - 1)
         IN  shorter \cup UNION {{Append(s, x) : x \in S \ Range(s)} :
                                    s \in {q \in shorter : Len(q) = n - 1}}

CandidateLists(fmt) ==
    {[k \in 1..Len(s) |-> IF fmt = "apkm" THEN ApkmName(s[k]) ELSE XapkEntry(s[k])] :
        s \in SeqsUpTo(Tags, MaxCands)}

SelIdle == [phase |-> "idle"]

install_start == << <<"install-multiple">>, <<"-rtd">> >>

SelInit ==
    /\ \E fmt \in {"apkm", "xapk"} : \E device \in Profiles : \E cands \in CandidateLists(fmt) :
          sel = [phase |-> "build", fmt |-> fmt, device |-> device, cands |-> cands,
                 config |-> <<>>, install |-> install_start]
    /\ stack = <<>>
    /\ cmd = [name |-> "none", flag |-> "", rc |-> 0, sig |-> "NONE"]
    /\ ret = [type |-> "none"]
    /\ hist = [unin |-> "no", uninstalls |-> 0, open |-> 0, bulk |-> "none"]

SelBuild ==
    /\ sel.phase = "build"
    /\ LET r == IF sel.fmt = "apkm"
                THEN build_apkm_config(sel.device, sel.cands, sel.install)
                ELSE build_xapk_config(sel.device, sel.cands, sel.install)
       IN  sel' = IF r = Raised THEN [sel EXCEPT !.phase = "raised"]
                  ELSE [sel EXCEPT !.phase = "abi", !.config = r.config,
                                   !.install = r.install]
    /\ UNCHANGED <<stack, cmd, ret, hist>>

SelAbi ==
    /\ sel.phase = "abi"
    /\ sel' = [sel EXCEPT !.phase = "drawable",
                          !.install = config_abi(sel.config, sel.install, sel.device.abilist)]
    /\ UNCHANGED <<stack, cmd, ret, hist>>

SelDrawable ==
    /\ sel.phase = "drawable"
    /\ sel' = [sel EXCEPT !.phase = "language",
                          !.install = config_drawable(sel.config, sel.install)]
    /\ UNCHANGED <<stack, cmd, ret, hist>>

SelLanguage ==
    /\ sel.phase = "language"
    /\ sel' = [sel EXCEPT !.phase = "done",
                          !.install = config_language(sel.config, sel.install)]
    /\ UNCHANGED <<stack, cmd, ret, hist>>

(***************************************************************************)
(* The install engine.  The program is sequential; its control state is    *)
(* the call stack, one frame per active function, the last frame on top.   *)
(* One step is one device-bridge round trip (or one external tool run)     *)
(* together with the local code up to the next one; cmd is the command     *)
(* the last step issued, ret the value the last finished call returned,    *)
(* hist what has happened on the device so far.                            *)
(***************************************************************************)
MaxRetries == 2
MaxApks == 2
MaxUninstalls == 2
MaxDevices == 2

\* Python values: None, a bool, a subprocess.CompletedProcess, and the
\* (install, run) pair the install functions return.
NoneVal == [type |-> "none"]
Bool(b) == [type |-> "bool", v |-> b]
Proc(rc, sig) == [type |-> "proc", rc |-> rc, sig |-> sig]
Tuple(install, run) == [type |-> "tuple", install |-> install, run |-> run]

\* bool(v): a CompletedProcess defines neither __bool__ nor __len__, so it
\* is true whatever its returncode.
Truthy(v) ==
    CASE v.type = "bool" -> v.v
      [] v.type = "none" -> FALSE
      [] OTHER           -> TRUE

\* v.returncode exists (otherwise reading it raises AttributeError)
HasReturncode(v) == v.type = "proc"

\* What the bridge output of a failed install can carry.  NO_STDERR is a
\* failure whose text went to stdout, leaving stderr empty.
Signals == {"OTHER", "TEST_ONLY", "DOWNGRADE", "USER_RESTRICTED", "ALREADY_EXISTS"}
BulkSignals == Signals \cup {"NO_STDERR"}

\* the responses to a command: success, or a failure with one of sigs
Responses(sigs) == {Proc(0, "NONE")} \cup {Proc(1, g) : g \in sigs}

Flags == {"-rtd", "-r", "", "-t"}

Top == stack[Len(stack)]
Below == SubSeq(stack, 1, Len(stack) - 1)
Running(fn, pc) == stack # <<>> /\ Top.fn = fn /\ Top.pc = pc

(***************************************************************************)
(* print_err: what the failure text makes it do.  tostr(run.stderr) of an  *)
(* empty stderr raises TypeError before print_err is entered.              *)
(***************************************************************************)
print_err(sig) ==
    CASE sig = "NO_STDERR"       -> "TypeError"
      [] sig = "USER_RESTRICTED" -> "SystemExit"
      [] sig = "ALREADY_EXISTS"  -> "SystemExit"
      [] OTHER                   -> "return"

(***************************************************************************)
(* The command of a step and the history of the run.                       *)
(***************************************************************************)
Cmd(name, flag, run) ==
    [name |-> name, flag |-> flag, rc |-> run.rc, sig |-> run.sig]

NoCmd == [name |-> "none", flag |-> "", rc |-> 0, sig |-> "NONE"]

InstallCmds == {"install", "install-multiple"}

\* unin: the installed package was removed by uninstall -k ("removed"),
\*   and then installed again ("reinstalled") or restore was called
\*   ("restored");
\* uninstalls: the calls of uninstall so far;
\* open: the sessions created and neither committed nor abandoned;
\* bulk: a bulk install failed with relaxed flags ("pending"), and then
\*   install_base was called with its files ("session") or with other
\*   files ("otherfiles").
HistInit == [unin |-> "no", uninstalls |-> 0, open |-> 0, bulk |-> "none"]

\* the history after command c
Record(h, c) ==
    LET installed == (c.name \in InstallCmds \/ c.name = "install-commit") /\ c.rc = 0
    IN  [h EXCEPT
           !.unin = IF c.name = "uninstall" /\ c.rc = 0 THEN "removed"
                    ELSE IF installed /\ @ = "removed" THEN "reinstalled"
                    ELSE @,
           !.open = IF c.name = "install-create" /\ c.rc = 0 THEN @ + 1
                    ELSE IF c.name = "install-commit" /\ c.rc = 0 THEN @ - 1
                    ELSE IF c.name = "install-abandon" THEN @ - 1
                    ELSE @]

(***************************************************************************)
(* Calls, returns and exceptions.                                          *)
(***************************************************************************)
Call(stk, pc, frame) == Append(SubSeq(stk, 1, Len(stk) - 1),
                               [stk[Len(stk)] EXCEPT !.pc = pc]) \o <<frame>>

\* the top frame returns val to its caller
Return(stk, val) == [stack |-> SubSeq(stk, 1, Len(stk) - 1), ret |-> val]

\* main returns val: the outermost main ends the run with it
MainReturn(stk, val) ==
    IF Len(stk) = 1
    THEN [stack |-> <<[stk[1] EXCEPT !.pc = "done", !.result = val]>>, ret |-> val]
    ELSE Return(stk, val)

\* an exception raised in the top frame of stk: "SystemExit" (sys.exit) or
\* "Exception" (any other), unwound to the try statement that handles it
RECURSIVE Raise(_, _)
Raise(stk, exc) ==
    LET f == stk[Len(stk)]
        rest == SubSeq(stk, 1, Len(stk) - 1)
    IN  IF f.fn = "main"
        THEN IF exc = "Exception" /\ f.pc = "ret_base"
             THEN [stack |-> Append(rest, [f EXCEPT !.pc = "prompt"]), ret |-> NoneVal]
             ELSE MainReturn(stk, Bool(FALSE))
        ELSE IF f.fn = "uninstall" /\ f.pc = "ret_restore" /\ exc = "Exception"
        THEN Raise(rest, "SystemExit")
        ELSE IF f.fn = "install_multiple" /\ f.pc = "ret_base" /\ exc = "Exception"
        THEN Return(stk, Tuple(f.install, f.run))
        ELSE Raise(rest, exc)

\* the step's outcome r = [stack, ret], having issued command c
Step(r, c) ==
    /\ stack' = r.stack
    /\ ret' = r.ret
    /\ cmd' = c
    /\ hist' = Record(hist, c)
    /\ UNCHANGED sel

\* the same, with the history h the step itself has written
StepH(r, c, h) ==
    /\ stack' = r.stack
    /\ ret' = r.ret
    /\ cmd' = c
    /\ hist' = Record(h, c)
    /\ UNCHANGED sel

Goto(pc) == [stack |-> Append(Below, [Top EXCEPT !.pc = pc]), ret |-> ret]
With(f) == [stack |-> Append(Below, f), ret |-> ret]

(***************************************************************************)
(* Frames.                                                                 *)
(***************************************************************************)
MainFrame(pkg) ==
    [fn |-> "main", pc |-> "start", pkg |-> pkg, d |-> 1,
     install |-> <<>>, result |-> NoneVal]

\* cnt: the install commands issued with each flag in this call
ApkFrame ==
    [fn |-> "install_apk", pc |-> "checks", abc |-> "-rtd",
     cnt |-> [f \in Flags |-> 0], gate |-> "ok"]

MultiFrame(install) ==
    [fn |-> "install_multiple", pc |-> "bulk", install |-> install,
     cnt |-> [f \in Flags |-> 0], run |-> NoneVal]

\* bulk: the files of the failed bulk install this call is the fallback of
BaseFrame(file_list, bulk) ==
    [fn |-> "install_base", pc |-> "create", file_list |-> file_list, i |-> 1,
     bulk |-> bulk]

\* bk: what pull_apk has done so far
NoBackup == [path |-> -1, n |-> 0, pulls |-> <<>>, obb |-> "none"]

UninstallFrame ==
    [fn |-> "uninstall", pc |-> "path", bk |-> NoBackup, i |-> 1, run |-> NoneVal]

RestoreFrame(all_file) ==
    [fn |-> "restore", pc |-> "start", all_file |-> all_file, i |-> 1]

XapkFrame == [fn |-> "install_xapk", pc |-> "checks"]
ApkmFrame == [fn |-> "install_apkm", pc |-> "checks"]
ApksFrame == [fn |-> "install_apks", pc |-> "start"]

\* s[m:] of Python, m counted from 0
Slice(s, m) == IF m >= Len(s) THEN <<>> ELSE SubSeq(s, m + 1, Len(s))

\* the package of the innermost main
RECURSIVE PkgOf(_)
PkgOf(stk) ==
    IF stk[Len(stk)].fn = "main" THEN stk[Len(stk)].pkg
    ELSE PkgOf(SubSeq(stk, 1, Len(stk) - 1))

Ok == Proc(0, "NONE")
Statuses == {Ok, Proc(1, "OTHER")}

(***************************************************************************)
(* checkVersion: the installed version against the file's, and the         *)
(* operator's answer to the question it asks.                              *)
(***************************************************************************)
VersionRel == {"absent", "older", "same", "newer"}

checkVersion(installed, answer) ==
    IF installed \in {"same", "newer"} /\ answer # "y" THEN "SystemExit" ELSE "return"

\* what checkVersion can do, over the versions the device may hold and the
\* answers the operator may give
VersionChecks == {checkVersion(i, a) : i \in VersionRel, a \in {"y", "n"}}

(***************************************************************************)
(* install_apk                                                             *)
(***************************************************************************)
InstallApkChecks ==
    /\ Running("install_apk", "checks")
    /\ \E version \in VersionChecks :
          LET c == Cmd("pm dump", "", Ok)
          IN  IF version = "SystemExit" \/ Top.gate # "ok"
              THEN Step(Raise(stack, "SystemExit"), c)
              ELSE Step(Goto("install"), c)

\* a variant that uninstalls as soon as the first install fails
ApkOnFailureEager(abc, sig) ==
    IF abc \in {"-rtd", "-r"} THEN "uninstall"
    ELSE IF sig = "TEST_ONLY" THEN "retry -t"
    ELSE "SystemExit"

\* the branch install_apk takes on a failed install with flags abc
ApkOnFailure(abc, sig) ==
    IF abc = "-rtd" THEN "retry -r"
    ELSE IF abc = "-r" THEN "uninstall"
    ELSE IF sig = "TEST_ONLY" THEN "retry -t"
    ELSE "SystemExit"

InstallApkInstall ==
    /\ Running("install_apk", "install")
    /\ Top.cnt[Top.abc] < MaxRetries
    /\ \E run \in Responses(Signals) :
          LET f == Top
              c == Cmd("install", f.abc, run)
              g == [f EXCEPT !.cnt[f.abc] = @ + 1]
              branch == ApkOnFailure(f.abc, run.sig)
          IN  IF run.rc = 0
              THEN Step(Return(stack, Tuple(<< <<"install">>, <<f.abc>> >>, Bool(TRUE))), c)
              ELSE CASE branch = "retry -r" ->
                          Step(With([g EXCEPT !.abc = "-r", !.pc = "checks"]), c)
                     [] branch = "uninstall" ->
                          /\ hist.uninstalls < MaxUninstalls
                          /\ StepH([stack |-> Call(Append(Below, g), "ret_uninstall", UninstallFrame),
                                    ret |-> ret], c,
                                   [hist EXCEPT !.uninstalls = @ + 1])
                     [] branch = "retry -t" ->
                          Step(With([g EXCEPT !.abc = "-t", !.pc = "checks"]), c)
                     [] OTHER ->
                          Step(Raise(stack, "SystemExit"), c)

InstallApkUninstallRet ==
    /\ Running("install_apk", "ret_uninstall")
    /\ IF Truthy(ret)
       THEN Step(With([Top EXCEPT !.abc = "", !.pc = "checks"]), NoCmd)
       ELSE Step(Return(stack, Tuple(<< <<"install">>, <<Top.abc>> >>, Bool(TRUE))), NoCmd)

(***************************************************************************)
(* uninstall, with pull_apk as its first part                              *)
(***************************************************************************)
PullApkPath ==
    /\ Running("uninstall", "path")
    /\ \E run \in Statuses, n \in 0..MaxApks :
          /\ run.rc # 0 => n = 0
          /\ LET c == Cmd("pm path", "", run)
                 f == [Top EXCEPT !.bk = [NoBackup EXCEPT !.path = run.rc, !.n = n]]
             IN  IF run.rc # 0 \/ n = 0
                 THEN Step(Raise(stack, "SystemExit"), c)
                 ELSE Step(With([f EXCEPT !.pc = "pull", !.i = 1]), c)

\* a failed pull of a package file ends the backup
PullFails(rc) == rc # 0

PullApkPull ==
    /\ Running("uninstall", "pull")
    /\ \E run \in Statuses :
          LET c == Cmd("pull", "apk", run)
              f == [Top EXCEPT !.bk.pulls = Append(@, run.rc)]
          IN  IF PullFails(run.rc)
              THEN Step(Raise(stack, "SystemExit"), c)
              ELSE IF f.i = f.bk.n
              THEN Step(With([f EXCEPT !.pc = "obb"]), c)
              ELSE Step(With([f EXCEPT !.i = @ + 1]), c)

\* a variant in which a failed pull of expansion data never ends the backup
ObbPullFatalNever(rc, notfound) == FALSE

\* the expansion-data pull ends the backup in failure
ObbPullFatal(rc, notfound) == rc # 0 /\ ~notfound

PullApkObb ==
    /\ Running("uninstall", "obb")
    /\ \E run \in Statuses, notfound \in BOOLEAN :
          /\ run.rc = 0 => ~notfound
          /\ LET c == Cmd("pull", "obb", run)
                 f == [Top EXCEPT !.bk.obb = IF run.rc = 0 THEN "ok"
                                             ELSE IF notfound THEN "notfound"
                                             ELSE "error"]
             IN  IF ObbPullFatal(run.rc, notfound)
                 THEN Step(Raise(stack, "SystemExit"), c)
                 ELSE Step(With([f EXCEPT !.pc = "uninstall"]), c)

\* the names pull_apk leaves in the backup directory: n package files and,
\* when expansion data was pulled, one .obb entry at place p of the listing
BackupApk(k) == IF k = 1 THEN <<"base", "apk">> ELSE <<"split_config", "arm64_v8a", "apk">>

Listing(n, obb, p) ==
    LET apks == [k \in 1..n |-> BackupApk(k)]
    IN  IF ~obb THEN apks
        ELSE SubSeq(apks, 1, p - 1) \o << <<"main", "obb">> >> \o SubSeq(apks, p, n)

UninstallCmd ==
    /\ Running("uninstall", "uninstall")
    /\ \E run \in Statuses :
          Step(With([Top EXCEPT !.pc = "try", !.run = run]),
               Cmd("uninstall", "-k", run))

\* try: if run.returncode: restore(device, dir_path, root)
UninstallTry ==
    /\ Running("uninstall", "try")
    /\ \E p \in 1..(Top.bk.n + 1) :
          /\ (Top.run.rc = 0 \/ Top.bk.obb # "ok") => p = 1
          /\ IF Top.run.rc # 0
             THEN StepH([stack |-> Call(stack, "ret_restore",
                                        RestoreFrame(Listing(Top.bk.n, Top.bk.obb = "ok", p))),
                         ret |-> ret], NoCmd,
                        [hist EXCEPT !.unin = IF @ = "removed" THEN "restored" ELSE @])
             ELSE Step(Return(stack, Top.run), NoCmd)

UninstallRestoreRet ==
    /\ Running("uninstall", "ret_restore")
    /\ Step(Return(stack, Top.run), NoCmd)

(***************************************************************************)
(* restore                                                                 *)
(***************************************************************************)
EndsWithObb(name) == Len(name) >= 2 /\ name[Len(name)] = "obb"

RestoreStart ==
    /\ Running("restore", "start")
    /\ LET all_file == Top.all_file
       IN  IF \E k \in 1..Len(all_file) : EndsWithObb(all_file[k])
           THEN Step(Goto("obb_loop"), NoCmd)
           ELSE IF Len(all_file) = 0
           THEN Step(Raise(stack, "SystemExit"), NoCmd)
           ELSE IF Len(all_file) = 1
           THEN \E found \in BOOLEAN :
                   IF found
                   THEN Step([stack |-> Call(stack, "ret",
                                  MainFrame([kind |-> "apk", gate |-> "ok"])),
                              ret |-> ret], NoCmd)
                   ELSE Step(Raise(stack, "Exception"), NoCmd)
           ELSE Step([stack |-> Call(stack, "ret",
                          MultiFrame(install_start \o all_file)), ret |-> ret], NoCmd)

RestoreObbLoop ==
    /\ Running("restore", "obb_loop")
    /\ LET f == Top
           next == Append(Below, [f EXCEPT !.i = @ + 1])
       IN  IF f.i > Len(f.all_file)
           THEN Step(Return(stack, NoneVal), NoCmd)
           ELSE IF EndsWithApk(f.all_file[f.i])
           THEN Step([stack |-> Call(next, "obb_loop", ApkFrame), ret |-> ret], NoCmd)
           ELSE IF EndsWithObb(f.all_file[f.i])
           THEN \E run \in Statuses :
                   Step([stack |-> next, ret |-> ret], Cmd("push", "obb", run))
           ELSE Step([stack |-> next, ret |-> ret], NoCmd)

RestoreRet ==
    /\ Running("restore", "ret")
    /\ Step(Return(stack, NoneVal), NoCmd)

(***************************************************************************)
(* install_base and the session commands of Device                         *)
(***************************************************************************)
BaseCreate ==
    /\ Running("install_base", "create")
    /\ \E run \in Statuses :
          LET c == Cmd("install-create", "", run)
              h == [hist EXCEPT !.bulk = IF @ # "pending" THEN @
                                         ELSE IF Top.file_list = Top.bulk THEN "session"
                                         ELSE "otherfiles"]
          IN  IF run.rc # 0
              THEN StepH(Raise(stack, "SystemExit"), c, h)
              ELSE StepH(With([Top EXCEPT !.pc = IF Top.file_list = <<>> THEN "commit" ELSE "push",
                                          !.i = 1]), c, h)

BasePush ==
    /\ Running("install_base", "push")
    /\ \E run \in Statuses :
          LET c == Cmd("push", "tmp", run)
          IN  IF run.rc # 0
              THEN Step(Raise(stack, "SystemExit"), c)
              ELSE IF Top.i = Len(Top.file_list)
              THEN Step(With([Top EXCEPT !.pc = "write", !.i = 1]), c)
              ELSE Step(With([Top EXCEPT !.i = @ + 1]), c)

BaseWrite ==
    /\ Running("install_base", "write")
    /\ \E run \in Statuses :
          LET c == Cmd("install-write", "", run)
          IN  IF run.rc # 0
              THEN Step(Goto("abandon"), c)
              ELSE IF Top.i = Len(Top.file_list)
              THEN Step(Goto("commit"), c)
              ELSE Step(With([Top EXCEPT !.i = @ + 1]), c)

BaseCommit ==
    /\ Running("install_base", "commit")
    /\ \E run \in Statuses :
          LET c == Cmd("install-commit", "", run)
          IN  IF run.rc # 0
              THEN Step(Goto("abandon"), c)
              ELSE IF Top.file_list = <<>>
              THEN Step(Return(stack, Tuple(<<>>, Bool(TRUE))), c)
              ELSE Step(With([Top EXCEPT !.pc = "del", !.i = 1]), c)

BaseAbandon ==
    /\ Running("install_base", "abandon")
    /\ \E run \in Statuses :
          Step(Raise(stack, "SystemExit"), Cmd("install-abandon", "", run))

BaseDel ==
    /\ Running("install_base", "del")
    /\ \E run \in Statuses :
          LET c == Cmd("rm", "", run)
          IN  IF run.rc # 0
              THEN Step(Raise(stack, "SystemExit"), c)
              ELSE IF Top.i = Len(Top.file_list)
              THEN Step(Return(stack, Tuple(Top.file_list, Bool(TRUE))), c)
              ELSE Step(With([Top EXCEPT !.i = @ + 1]), c)

(***************************************************************************)
(* install_multiple                                                        *)
(***************************************************************************)
\* the branch install_multiple takes on a failed bulk install with flag
\* install[1]
MultiOnFailure(flag) ==
    IF flag = "-rtd" THEN "retry -r"
    ELSE IF flag = "r" THEN "retry"
    ELSE IF flag = "" THEN "install_base"
    ELSE "return"

InstallMultipleBulk ==
    /\ Running("install_multiple", "bulk")
    /\ \E run \in Responses(BulkSignals) :
          LET f == Top
              install == f.install
              flag == install[2][1]
              c == Cmd("install-multiple", flag, run)
              g == [f EXCEPT !.cnt[flag] = @ + 1, !.run = run]
              h == IF run.rc # 0 /\ flag # "-rtd" /\ print_err(run.sig) = "return"
                   THEN [hist EXCEPT !.bulk = "pending"]
                   ELSE hist
              branch == MultiOnFailure(flag)
              relaxed(fl) == With([g EXCEPT !.install = [install EXCEPT ![2] = <<fl>>]])
          IN  IF run.rc = 0
              THEN StepH(Return(stack, Tuple(install, run)), c, h)
              ELSE CASE branch = "retry -r" -> StepH(relaxed("-r"), c, h)
                     [] branch = "retry" -> StepH(relaxed(""), c, h)
                     [] branch = "install_base" ->
                          (CASE print_err(run.sig) = "TypeError" ->
                                  StepH(Raise(stack, "Exception"), c, h)
                             [] print_err(run.sig) = "SystemExit" ->
                                  StepH(Raise(stack, "SystemExit"), c, h)
                             [] OTHER ->
                                  StepH([stack |-> Call(Append(Below, g), "ret_base",
                                                        BaseFrame(Slice(install, 2),
                                                                  Slice(install, 2))),
                                         ret |-> ret], c, h))
                     [] OTHER -> StepH(Return(stack, Tuple(install, run)), c, h)

\* run = install_base(...)[1] is a bool: reading run.returncode raises
\* AttributeError inside the try, and the function returns (install, run)
InstallMultipleBaseRet ==
    /\ Running("install_multiple", "ret_base")
    /\ Step(Return(stack, Tuple(Top.install, ret.run)), NoCmd)

(***************************************************************************)
(* install_apkm, install_xapk, install_apks                                *)
(***************************************************************************)
\* the install list the selection builds, or Raised
SelectInstall(fmt, device, cands) ==
    LET r == IF fmt = "apkm" THEN build_apkm_config(device, cands, install_start)
             ELSE build_xapk_config(device, cands, install_start)
    IN  IF r = Raised THEN Raised
        ELSE config_language(r.config,
                 config_drawable(r.config,
                     config_abi(r.config, r.install, device.abilist)))

InstallApkmChecks ==
    /\ Running("install_apkm", "checks")
    /\ \E version \in VersionChecks :
          LET pkg == PkgOf(stack)
              install == SelectInstall("apkm", pkg.device, pkg.file_list)
          IN  IF pkg.gate = "sdktoolow"
              THEN Step(Raise(stack, "SystemExit"), Cmd("getprop", "sdk", Ok))
              ELSE IF version = "SystemExit"
              THEN Step(Raise(stack, "SystemExit"), Cmd("pm dump", "", Ok))
              ELSE IF install = Raised
              THEN Step(Raise(stack, "Exception"), Cmd("getprop", "dpi", Ok))
              ELSE Step(With(MultiFrame(install)), Cmd("getprop", "abilist", Ok))

InstallXapkChecks ==
    /\ Running("install_xapk", "checks")
    /\ \E version \in VersionChecks :
          LET pkg == PkgOf(stack)
              install == SelectInstall("xapk", pkg.device, pkg.split_apks)
          IN  IF pkg.gate = "sdktoolow" /\ ~pkg.ignore
              THEN Step(Raise(stack, "SystemExit"), Cmd("getprop", "sdk", Ok))
              ELSE IF install = Raised
              THEN Step(Raise(stack, "Exception"), Cmd("getprop", "dpi", Ok))
              ELSE IF version = "SystemExit"
              THEN Step(Raise(stack, "SystemExit"), Cmd("pm dump", "", Ok))
              ELSE Step(With(MultiFrame(install)), Cmd("getprop", "abilist", Ok))

\* install_apks with a bundletool archive: bundletool installs it, or java
\* is missing and install_apks_py installs the archive's splits itself
InstallApks ==
    /\ Running("install_apks", "start")
    /\ \E java \in {"installed", "failed", "missing"}, standalone \in BOOLEAN :
          LET pkg == PkgOf(stack)
          IN  CASE java = "installed" ->
                     Step(Return(stack, Tuple(<< <<"java">> >>, Bool(TRUE))),
                          Cmd("bundletool", "", Ok))
                [] java = "failed" ->
                     Step(Raise(stack, "SystemExit"),
                          Cmd("bundletool", "", Proc(1, "OTHER")))
                [] OTHER ->
                     IF pkg.gate = "presplit"
                     THEN IF standalone
                          THEN Step(With(ApkFrame), Cmd("getprop", "sdk", Ok))
                          ELSE Step(Raise(stack, "SystemExit"), Cmd("getprop", "sdk", Ok))
                     ELSE Step(With(MultiFrame(<< <<"install-multiple">>, <<"">> >> \o pkg.file_list)),
                               Cmd("getprop", "sdk", Ok))

(***************************************************************************)
(* main                                                                    *)
(***************************************************************************)
\* devices = check(ADB): the run ends when no device is attached
MainStart ==
    /\ Running("main", "start")
    /\ \E attached \in BOOLEAN :
          LET c == Cmd("devices", "", Ok)
          IN  IF ~attached
              THEN Step(Raise(stack, "SystemExit"), c)
              ELSE Step(With([Top EXCEPT !.pc = "device", !.d = 1]), c)

\* for device in devices: d is the place in the list, and whether the
\* list has a d-th device shows when the loop gets there
MainDevice ==
    /\ Running("main", "device")
    /\ \E more \in BOOLEAN :
          /\ Top.d = 1 => more
          /\ more => Top.d <= MaxDevices
          /\ LET kind == Top.pkg.kind
             IN  IF ~more
                 THEN Step(MainReturn(stack, Bool(TRUE)), NoCmd)
                 ELSE CASE kind = "xapk" ->
                             Step([stack |-> Call(stack, "ret_xapk", XapkFrame),
                                   ret |-> ret], NoCmd)
                        [] kind = "apk" ->
                             Step([stack |-> Call(stack, "ret_selector",
                                                  [ApkFrame EXCEPT !.gate = Top.pkg.gate]),
                                   ret |-> ret], NoCmd)
                        [] kind = "apkm" ->
                             Step([stack |-> Call(stack, "ret_selector", ApkmFrame),
                                   ret |-> ret], NoCmd)
                        [] OTHER ->
                             Step([stack |-> Call(stack, "ret_selector", ApksFrame),
                                   ret |-> ret], NoCmd)

\* return installSelector[suffix](device, copy[1], del_path, root)[1]
MainSelectorRet ==
    /\ Running("main", "ret_selector")
    /\ Step(MainReturn(stack, ret.run), NoCmd)

MainXapkRet ==
    /\ Running("main", "ret_xapk")
    /\ LET install == ret.install
           run == ret.run
       IN  IF ~HasReturncode(run)
           THEN Step(Raise(stack, "Exception"), NoCmd)
           ELSE IF run.rc = 0
           THEN Step(With([Top EXCEPT !.pc = "device", !.d = @ + 1]), NoCmd)
           ELSE CASE print_err(run.sig) = "TypeError" ->
                       Step(Raise(stack, "Exception"), NoCmd)
                  [] print_err(run.sig) = "SystemExit" ->
                       Step(Raise(stack, "SystemExit"), NoCmd)
                  [] OTHER ->
                       Step([stack |-> Call(Append(Below, [Top EXCEPT !.install = install]),
                                            "ret_base",
                                            BaseFrame(Slice(install, 5), Slice(install, 2))),
                             ret |-> ret], NoCmd)

\* run = install_base(...)[1]; if not run.returncode: return True
MainBaseRet ==
    /\ Running("main", "ret_base")
    /\ IF HasReturncode(ret.run) /\ ret.run.rc = 0
       THEN Step(MainReturn(stack, Bool(TRUE)), NoCmd)
       ELSE Step(Goto("prompt"), NoCmd)

MainPrompt ==
    /\ Running("main", "prompt")
    /\ \E answer \in {"y", "n"} :
          IF answer = "y"
          THEN /\ hist.uninstalls < MaxUninstalls
               /\ StepH([stack |-> Call(stack, "ret_uninstall", UninstallFrame), ret |-> ret],
                        NoCmd, [hist EXCEPT !.uninstalls = @ + 1])
          ELSE Step(Raise(stack, "SystemExit"), NoCmd)

\* for i in install: run_msg(i) runs the word "install-multiple" as a
\* program of its own, which raises FileNotFoundError
MainUninstallRet ==
    /\ Running("main", "ret_uninstall")
    /\ IF Truthy(ret)
       THEN Step(Raise(stack, "Exception"), NoCmd)
       ELSE Step(With([Top EXCEPT !.pc = "device", !.d = @ + 1]), NoCmd)

Done == Running("main", "done")

(***************************************************************************)
(* Specifications.                                                         *)
(***************************************************************************)
EngineDevices ==
    {Device("arm64-v8a", <<"arm64-v8a", "armeabi-v7a", "armeabi">>, d, "en") : d \in {420, 700}}

EngineCands == {<<"base", "arm64_v8a">>, <<"base", "arm64_v8a", "xxhdpi", "en">>}

\* The packages of a run.  An input that the code never reads is not varied:
\* install_apks reads neither the device's dpi nor a minimum SDK, the
\* pre-split path does not read the split list, and --ignore only matters
\* when the xapk's minimum SDK is above the device's.
Packages ==
    {[kind |-> "apk", gate |-> g] : g \in {"ok", "sdktoolow", "abimismatch"}}
    \cup {[kind |-> "apkm", gate |-> g, device |-> d,
           file_list |-> [k \in 1..Len(c) |-> ApkmName(c[k])]] :
            g \in {"ok", "sdktoolow"}, d \in EngineDevices, c \in EngineCands}
    \cup {[kind |-> "xapk", gate |-> g, ignore |-> FALSE, device |-> d,
           split_apks |-> [k \in 1..Len(c) |-> XapkEntry(c[k])]] :
            g \in {"ok", "sdktoolow"}, d \in EngineDevices, c \in EngineCands}
    \cup {[kind |-> "xapk", gate |-> "sdktoolow", ignore |-> TRUE, device |-> d,
           split_apks |-> [k \in 1..Len(c) |-> XapkEntry(c[k])]] :
            d \in {x \in EngineDevices : x.dpi = 420}, c \in {x \in EngineCands : Len(x) = 2}}
    \cup {[kind |-> "apks", gate |-> "ok", device |-> d,
           file_list |-> [k \in 1..Len(c) |-> ApkmName(c[k])]] :
            d \in {x \in EngineDevices : x.dpi = 420}, c \in EngineCands}
    \cup {[kind |-> "apks", gate |-> g, device |-> d,
           file_list |-> [k \in 1..Len(c) |-> ApkmName(c[k])]] :
            g \in {"presplit", "sdktoolow"}, d \in {x \in EngineDevices : x.dpi = 420},
            c \in {x \in EngineCands : Len(x) = 2}}

Init ==
    /\ sel = SelIdle
    /\ \E pkg \in Packages : stack = <<MainFrame(pkg)>>
    /\ cmd = NoCmd
    /\ ret = NoneVal
    /\ hist = HistInit

Next ==
    \/ MainStart
    \/ MainDevice
    \/ MainSelectorRet
    \/ MainXapkRet
    \/ MainBaseRet
    \/ MainPrompt
    \/ MainUninstallRet
    \/ InstallApkChecks
    \/ InstallApkInstall
    \/ InstallApkUninstallRet
    \/ InstallApkmChecks
    \/ InstallXapkChecks
    \/ InstallApks
    \/ InstallMultipleBulk
    \/ InstallMultipleBaseRet
    \/ BaseCreate
    \/ BasePush
    \/ BaseWrite
    \/ BaseCommit
    \/ BaseAbandon
    \/ BaseDel
    \/ PullApkPath
    \/ PullApkPull
    \/ PullApkObb
    \/ UninstallCmd
    \/ UninstallTry
    \/ UninstallRestoreRet
    \/ RestoreStart
    \/ RestoreObbLoop
    \/ RestoreRet

Spec == Init /\ [][Next]_vars

\* install_apkm: for i in install[5:]: zip_file.extract(i, del_path[-1])
SelExtract ==
    /\ sel.phase = "done"
    /\ sel.fmt = "apkm"
    /\ sel' = [phase |-> "extracted", fmt |-> sel.fmt, device |-> sel.device,
               cands |-> sel.cands, config |-> sel.config, install |-> sel.install,
               extracted |-> Range(Slice(sel.install, 5))]
    /\ UNCHANGED <<stack, cmd, ret, hist>>

SelNext ==
    \/ SelBuild
    \/ SelAbi
    \/ SelDrawable
    \/ SelLanguage
    \/ SelExtract

SpecSelect == SelInit /\ [][SelNext]_vars

(***************************************************************************)
(* The selection for one device and one set of candidates, listed in every *)
(* order: SDK 30, arm64-v8a, density 420, locale en, and the splits base,  *)
(* arm64_v8a, armeabi_v7a, xxhdpi, en, fr.                                 *)
(***************************************************************************)
ScenarioDevice == Device("arm64-v8a", <<"arm64-v8a", "armeabi-v7a", "armeabi">>, 420, "en")

ScenarioTags == {"base", "arm64_v8a", "armeabi_v7a", "xxhdpi", "en", "fr"}

ScenarioLists(fmt) ==
    {[k \in 1..Len(s) |-> IF fmt = "apkm" THEN ApkmName(s[k]) ELSE XapkEntry(s[k])] :
        s \in {q \in SeqsUpTo(ScenarioTags, Cardinality(ScenarioTags)) :
                  Len(q) = Cardinality(ScenarioTags)}}

ScenarioInit ==
    /\ \E fmt \in {"apkm", "xapk"} : \E cands \in ScenarioLists(fmt) :
          sel = [phase |-> "build", fmt |-> fmt, device |-> ScenarioDevice, cands |-> cands,
                 config |-> <<>>, install |-> install_start]
    /\ stack = <<>>
    /\ cmd = NoCmd
    /\ ret = NoneVal
    /\ hist = HistInit

SpecScenario == ScenarioInit /\ [][SelNext]_vars

(***************************************************************************)
(* Device.getdrawable over a range of dpi values.                          *)
(***************************************************************************)
MaxDpi == 720
MaxBelowZero == 120

DensityInit ==
    /\ \E dpi \in (0 - MaxBelowZero)..MaxDpi : sel = [phase |-> "dpi", dpi |-> dpi]
    /\ stack = <<>>
    /\ cmd = NoCmd
    /\ ret = NoneVal
    /\ hist = HistInit

\* the drawable property: getdrawable() and the list it leaves in _drawable
GetDrawable ==
    /\ sel.phase = "dpi"
    /\ sel' = [phase |-> "bucket", dpi |-> sel.dpi, drawable |-> getdrawable(sel.dpi)]
    /\ UNCHANGED <<stack, cmd, ret, hist>>

SpecDensity == DensityInit /\ [][GetDrawable]_vars

(***************************************************************************)
(* main's staging: the working directory, del_path and the staging paths   *)
(* on disk.  A path is a sequence of components; an absolute path starts   *)
(* with "/", and the root "." is the empty relative path.                  *)
(***************************************************************************)
\* the directory of the program, where the run starts
RootDir == <<"/", "R">>

IsAbs(p) == p # <<>> /\ p[1] = "/"

\* os.path.join(a, b)
Join(a, b) == IF IsAbs(b) THEN b ELSE a \o b

\* the place a path names while the working directory is cwd
Abs(cwd, p) == Join(cwd, p)

\* get_unpack_path(file): the file's path without its suffix
get_unpack_path(dir) == Join(dir, <<"stage">>)

\* rootdir = os.path.split(sys.argv[0])[0], or os.getcwd() when that is empty
Roots == {RootDir, <<>>}

Kinds == {"apk", "apkm", "apks", "aab", "xapk"}

CleanupInit ==
    /\ \E root \in Roots, kind \in Kinds :
          sel = [phase |-> "copy", root |-> root, kind |-> kind, cwd |-> RootDir,
                 del_path |-> <<>>, fs |-> {}, exit |-> "none"]
    /\ stack = <<>>
    /\ cmd = NoCmd
    /\ ret = NoneVal
    /\ hist = HistInit

SelStep(s) ==
    /\ sel' = s
    /\ UNCHANGED <<stack, cmd, ret, hist>>

\* del_path.append(p); the path is created (a copy, an extraction, a build)
Staged(s, p) ==
    [s EXCEPT !.del_path = Append(@, p), !.fs = @ \cup {Abs(s.cwd, p)}]

\* the install leaves the try block with exit e
Leave(s, e) == [s EXCEPT !.phase = "finally", !.exit = e]

\* os.chdir(root); del_path = [os.path.join(root, new_path)]; copy_files(copy)
MainCopy ==
    /\ sel.phase = "copy"
    /\ LET s == [sel EXCEPT !.cwd = Abs(sel.cwd, sel.root)]
       IN  SelStep([Staged(s, Join(sel.root, <<"pkg">>)) EXCEPT !.phase = "devices"])

\* devices = check(ADB) and the device loop up to the install function
MainDevices ==
    /\ sel.phase = "devices"
    /\ \E attached \in BOOLEAN :
          IF ~attached THEN SelStep(Leave(sel, "SystemExit"))
          ELSE IF sel.kind = "xapk"
          THEN LET unpack_path == get_unpack_path(sel.root)
                   s == Staged(sel, unpack_path)
                   t == [s EXCEPT !.cwd = Abs(s.cwd, unpack_path)]
               IN  IF Abs(t.cwd, unpack_path) \in t.fs
                   THEN SelStep([t EXCEPT !.cwd = Abs(t.cwd, unpack_path), !.phase = "stage"])
                   ELSE SelStep(Leave(t, "return"))
          ELSE SelStep([sel EXCEPT !.phase = "stage"])

\* the install function up to its install command: what it records in
\* del_path, what it creates, and where it changes directory to
InstallStage ==
    /\ sel.phase = "stage"
    /\ \E tool \in BOOLEAN, early \in BOOLEAN :
          CASE sel.kind = "apk" ->
                 /\ ~early
                 /\ IF tool THEN SelStep([sel EXCEPT !.phase = "run"])
                    ELSE SelStep([Staged(sel, Join(sel.cwd, get_unpack_path(<<>>)))
                                     EXCEPT !.phase = "run"])
            [] sel.kind = "apkm" ->
                 /\ tool
                 /\ LET s == Staged(sel, Join(sel.cwd, get_unpack_path(sel.root)))
                    IN  IF early THEN SelStep(Leave(s, "SystemExit"))
                        ELSE SelStep([s EXCEPT !.cwd = s.del_path[Len(s.del_path)],
                                               !.phase = "run"])
            [] sel.kind = "apks" ->
                 LET s == [sel EXCEPT !.cwd = Abs(sel.cwd, sel.root)]
                 IN  IF tool
                     THEN SelStep(Leave(s, IF early THEN "SystemExit" ELSE "return"))
                     ELSE /\ ~early
                          /\ SelStep([Staged(s, Join(s.cwd, get_unpack_path(sel.root)))
                                         EXCEPT !.phase = "run"])
            [] sel.kind = "aab" ->
                 IF early
                 THEN /\ tool
                      /\ SelStep(Leave([sel EXCEPT !.del_path = Append(@, <<"built">>)],
                                       "SystemExit"))
                 ELSE LET s == Staged(sel, <<"built">>)
                          t == [s EXCEPT !.cwd = Abs(s.cwd, sel.root)]
                      IN  IF tool THEN SelStep(Leave(t, "return"))
                          ELSE SelStep([Staged(t, Join(t.cwd, get_unpack_path(<<>>)))
                                           EXCEPT !.phase = "run"])
            [] OTHER ->
                 /\ tool /\ ~early
                 /\ SelStep([sel EXCEPT !.cwd = Abs(sel.cwd, sel.del_path[Len(sel.del_path)]),
                                        !.phase = "run"])

\* the install commands, with uninstall's restore where the install
\* function has one: restore changes to the backup directory and, when it
\* gets to its end, to the root
InstallRun ==
    /\ sel.phase = "run"
    /\ \E exit \in {"return", "SystemExit", "Exception"},
          restore \in {"none", "done", "raised"} :
          /\ restore # "none" => sel.kind \in {"apk", "xapk"}
          /\ restore = "raised" => exit = "SystemExit"
          /\ LET dir_path == Abs(sel.cwd, Join(sel.root, <<"backup">>))
                 cwd == CASE restore = "none" -> sel.cwd
                          [] restore = "done" -> Abs(dir_path, sel.root)
                          [] OTHER -> dir_path
             IN  SelStep(Leave([sel EXCEPT !.cwd = cwd], exit))

\* delPath(path): nothing when the path does not exist
RECURSIVE delPaths(_, _, _, _)
delPaths(fs, cwd, del_path, k) ==
    IF k > Len(del_path) THEN fs
    ELSE delPaths(fs \ {Abs(cwd, del_path[k])}, cwd, del_path, k + 1)

\* finally: os.chdir(root); for i in del_path: delPath(i)
MainFinally ==
    /\ sel.phase = "finally"
    /\ LET cwd == Abs(sel.cwd, sel.root)
       IN  SelStep([sel EXCEPT !.phase = "done", !.cwd = cwd,
                               !.fs = delPaths(sel.fs, cwd, sel.del_path, 1)])

CleanupNext ==
    \/ MainCopy
    \/ MainDevices
    \/ InstallStage
    \/ InstallRun
    \/ MainFinally

SpecCleanup == CleanupInit /\ [][CleanupNext]_vars

(***************************************************************************)
(* Device.sdk / getsdk over the values of the four SDK properties.         *)
(***************************************************************************)
\* ro.build.version.sdk, ro.product.build.version.sdk,
\* ro.system.build.version.sdk, ro.system_ext.build.version.sdk
__sdk == <<"build", "product", "system", "system_ext">>

\* what getprop can print, stripped: nothing, a text that is no number, numbers
PropValues == {"", "REL", "28", "30"}

\* int(text): the number, or ValueError
int(text) ==
    CASE text = "28" -> [kind |-> "int", v |-> 28]
      [] text = "30" -> [kind |-> "int", v |-> 30]
      [] OTHER -> [kind |-> "ValueError", v |-> 0]

\* for i in __sdk: the first non-empty value goes through int(); the loop
\* falling off its end leaves _sdk None
RECURSIVE getsdk(_, _)
getsdk(props, k) ==
    IF k > Len(__sdk) THEN [kind |-> "None", v |-> 0]
    ELSE IF props[k] # "" THEN int(props[k])
    ELSE getsdk(props, k + 1)

SdkInit ==
    /\ \E props \in [1..Len(__sdk) -> PropValues] : sel = [phase |-> "props", props |-> props]
    /\ stack = <<>>
    /\ cmd = NoCmd
    /\ ret = NoneVal
    /\ hist = HistInit

\* the sdk property: getsdk() and the value of _sdk
GetSdk ==
    /\ sel.phase = "props"
    /\ sel' = [phase |-> "probed", props |-> sel.props, sdk |-> getsdk(sel.props, 1)]
    /\ UNCHANGED <<stack, cmd, ret, hist>>

SpecSdk == SdkInit /\ [][GetSdk]_vars

(***************************************************************************)
(* checkVersion over the lines of `pm dump`, as its callers call it.       *)
(***************************************************************************)
\* the version code of the file being installed
FileVersion == 2

\* the lines of the dump that checkVersion looks at, in either order; no
\* line at all when the package is not installed
DumpLines ==
    {<<>>}
    \cup {<<[key |-> "versionCode", v |-> v, abi |-> ""],
            [key |-> "primaryCpuAbi", v |-> 0, abi |-> a]>> :
            v \in {FileVersion - 1, FileVersion, FileVersion + 1},
            a \in {"arm64-v8a", "armeabi-v7a"}}
    \cup {<<[key |-> "primaryCpuAbi", v |-> 0, abi |-> a],
            [key |-> "versionCode", v |-> v, abi |-> ""]>> :
            v \in {FileVersion - 1, FileVersion, FileVersion + 1},
            a \in {"arm64-v8a", "armeabi-v7a"}}

\* the questions checkVersion can ask
Prompts == {"downgrade", "same", "abi"}

\* the ABIs the package declares: native_code, arches, config.get('abi')
PackageAbis == {<<>>, <<"armeabi-v7a">>, <<"arm64-v8a", "armeabi-v7a">>}

\* checkVersion(device, package_name, fileVersionCode, versionCode=-1, abis=[]):
\* the parameters that the positional arguments after the device bind to
BindCheckVersion(args) ==
    [fileVersionCode |-> args[2],
     versionCode |-> IF Len(args) >= 3 THEN args[3] ELSE -1,
     abis |-> IF Len(args) >= 4 THEN args[4] ELSE <<>>]

\* the arguments of the call in install_apk, install_apkm and install_xapk
CheckVersionArgs(caller, abis) == <<"package_name", FileVersion, abis>>

\* the loop over the lines: the questions asked so far, and how it ends
RECURSIVE checkVersionLines(_, _, _, _, _)
checkVersionLines(lines, k, p, answer, asked) ==
    IF k > Len(lines) THEN [asked |-> asked, exit |-> "return"]
    ELSE LET i == lines[k]
             q == IF i.key = "versionCode"
                  THEN IF p.fileVersionCode < i.v THEN "downgrade"
                       ELSE IF p.fileVersionCode = i.v THEN "same"
                       ELSE "none"
                  ELSE IF (i.abi = "arm64-v8a" /\ p.abis # <<>>)
                          /\ i.abi \notin Range(p.abis)
                       THEN "abi"
                       ELSE "none"
         IN  IF q = "none" THEN checkVersionLines(lines, k + 1, p, answer, asked)
             ELSE IF answer[q] # "y"
             THEN [asked |-> asked \cup {q}, exit |-> "SystemExit"]
             ELSE checkVersionLines(lines, k + 1, p, answer, asked \cup {q})

VersionInit ==
    /\ \E caller \in {"install_apk", "install_apkm", "install_xapk"},
          abis \in PackageAbis, lines \in DumpLines, answer \in [Prompts -> {"y", "n"}] :
          sel = [phase |-> "call", caller |-> caller, abis |-> abis,
                 lines |-> lines, answer |-> answer]
    /\ stack = <<>>
    /\ cmd = NoCmd
    /\ ret = NoneVal
    /\ hist = HistInit

\* checkVersion(device, manifest["package_name"], versionCode, native_code)
CallCheckVersion ==
    /\ sel.phase = "call"
    /\ LET p == BindCheckVersion(CheckVersionArgs(sel.caller, sel.abis))
           r == checkVersionLines(sel.lines, 1, p, sel.answer, {})
       IN  sel' = [phase |-> "checked", caller |-> sel.caller, abis |-> sel.abis,
                   lines |-> sel.lines, answer |-> sel.answer,
                   asked |-> r.asked, exit |-> r.exit]
    /\ UNCHANGED <<stack, cmd, ret, hist>>

SpecVersion == VersionInit /\ [][CallCheckVersion]_vars

(***************************************************************************)
(* Properties of the install engine.                                       *)
(***************************************************************************)
\* the last step issued an install command that failed with one of sigs
FailedInstall(sigs) == cmd.name \in InstallCmds /\ cmd.rc # 0 /\ cmd.sig \in sigs

\* the frames of the install chains on the stack
InstallFrames == {k \in 1..Len(stack) : stack[k].fn \in {"install_apk", "install_multiple"}}

\* C1: one package install tries each flag variant (-rtd, -r, no flag, -t)
\* at most once, whatever the bridge answers.
C1_EachFlagAtMostOnce ==
    \A k \in InstallFrames : \A f \in Flags : stack[k].cnt[f] <= 1

\* C2: an install command that fails with INSTALL_FAILED_USER_RESTRICTED or
\* INSTALL_FAILED_ALREADY_EXISTS ends the run in that very step, whichever
\* flag it carried, so that no bridge command follows it.
C2_TerminalSignalEndsRun ==
    FailedInstall({"USER_RESTRICTED", "ALREADY_EXISTS"}) => Done

\* the backup bk is complete: the path query returned zero, every reported
\* path was pulled with status zero, the expansion data was pulled or was
\* not there
BackupComplete(bk) ==
    /\ bk.path = 0
    /\ bk.n >= 1
    /\ Len(bk.pulls) = bk.n
    /\ \A k \in 1..Len(bk.pulls) : bk.pulls[k] = 0
    /\ bk.obb \in {"ok", "notfound"}

\* nothing of the backup bk has failed so far
BackupUnfailed(bk) ==
    /\ bk.path \in {-1, 0}
    /\ bk.path = 0 => bk.n >= 1
    /\ \A k \in 1..Len(bk.pulls) : bk.pulls[k] = 0
    /\ bk.obb # "error"

\* the last step was a path query or a package-file pull that failed
BackupStepFailed ==
    /\ cmd.rc # 0
    /\ cmd.name = "pm path" \/ (cmd.name = "pull" /\ cmd.flag = "apk")

C4_RestoreAfterFailedReinstall ==
    (Done /\ cmd.name = "install" /\ cmd.rc # 0) => hist.unin # "removed"

\* C5: install_apk goes on from the -r state to the install without flags
\* only when the uninstall command returned status zero.
C5_FailedUninstallStopsReinstall ==
    (Running("install_apk", "checks") /\ Top.abc = "" /\ Top.cnt[""] = 0)
        => (ret.type = "proc" /\ ret.rc = 0)

\* C6: a single-APK install that fails with INSTALL_FAILED_TEST_ONLY is
\* followed by a first retry with -t, and a failed install with -t is
\* followed by no retry.
C6_TestOnlyRetriedOnceWithT ==
    (cmd.name = "install" /\ cmd.rc # 0) =>
        /\ (cmd.sig = "TEST_ONLY" /\ cmd.flag # "-t") =>
              (Running("install_apk", "checks") /\ Top.abc = "-t" /\ Top.cnt["-t"] = 0)
        /\ cmd.flag = "-t" => ~Running("install_apk", "checks")

\* C7: an install command that fails with INSTALL_FAILED_VERSION_DOWNGRADE
\* leaves the engine neither in a retry of the install chain nor in the
\* session-based install.
C7_DowngradeStartsNoInstall ==
    FailedInstall({"DOWNGRADE"}) =>
        Top.fn \notin {"install_apk", "install_multiple", "install_base"}

\* C8: the run never ends with a session that was created and neither
\* committed nor abandoned.
C8_NoSessionLeftOpen == Done => hist.open = 0

\* C9: when the run ends, every bulk install that failed with relaxed flags
\* has been followed by a session-based install of exactly its files.
C9_SessionInstallOfSameFiles == Done => hist.bulk \in {"none", "session"}

\* the commands of the session-based install that put files into a session
SessionCmds == {"install-create", "install-write", "install-commit"}

\* C14: for a package whose declared minimum SDK is above the device's, no
\* install, install-multiple or session command is ever issued.
C14_SdkTooLowIssuesNoInstall ==
    (stack # <<>> /\ stack[1].pkg.gate = "sdktoolow") =>
        cmd.name \notin InstallCmds \cup SessionCmds

\* C15: within one install of a single APK the pre-install checks (and with
\* them the question checkVersion asks) run only before the first install
\* command, not again before a retry.
C15_ChecksOncePerInstall ==
    (cmd.name = "pm dump" /\ Running("install_apk", "install")) =>
        \A f \in Flags : Top.cnt[f] = 0

\* C16: when restore pushes expansion data, no package file of the backup
\* is still to be installed.
C16_ApksBeforeObb ==
    (cmd.name = "push" /\ cmd.flag = "obb") =>
        /\ Top.fn = "restore"
        /\ \A k \in Top.i..Len(Top.all_file) : ~EndsWithApk(Top.all_file[k])

\* a step of restore has failed and control is back in restore
RestoreStepFailed ==
    /\ cmd.rc # 0
    /\ cmd.name \in {"push", "install", "install-multiple"}
    /\ stack # <<>>
    /\ Top.fn = "restore"

\* C17: restore never goes on after a failed step: the failure ends the run.
C17_FailedRestoreStepEndsRun == ~RestoreStepFailed

(***************************************************************************)
(* Properties of the split selection.                                      *)
(***************************************************************************)
\* the selection has run to its end
SelDone == sel.phase = "done"

\* the file of a candidate
CandFile(c) == IF sel.fmt = "apkm" THEN c ELSE c.file

\* a candidate is the split of language code l
IsSplitOf(c, l) ==
    IF sel.fmt = "apkm" THEN c = SplitConfigApk(l) ELSE c.id = ConfigId(l)

\* some candidate is the split of the device's locale
LocaleMatch == \E k \in 1..Len(sel.cands) : IsSplitOf(sel.cands[k], sel.device.locale)

\* the language codes that occur among the candidates' tags
LanguageCodes == Range(_language) \cup {"pl"}

\* the files of the candidates that are splits of a language in codes, in
\* listing order
RECURSIVE LanguageFiles(_, _, _)
LanguageFiles(cands, codes, k) ==
    IF k > Len(cands) THEN <<>>
    ELSE (IF \E l \in codes : IsSplitOf(cands[k], l)
          THEN <<CandFile(cands[k])>> ELSE <<>>) \o LanguageFiles(cands, codes, k + 1)

\* the members of the install list that are among files, in list order
InstalledOf(files) == SelectSeq(sel.install, LAMBDA f : f \in Range(files))

SplitFiles(codes) ==
    {CandFile(sel.cands[k]) :
        k \in {j \in 1..Len(sel.cands) : \E t \in codes : IsSplitOf(sel.cands[j], t)}}

\* the files of the install list
Installed == {sel.install[k] : k \in 3..Len(sel.install)}

\* the tags of the density splits
DensityCodes == Range(_drawableList)

\* C11: when a candidate is the split of the device's exact density bucket,
\* the install list holds one density split and it is a split of that
\* bucket, whatever splits of other buckets are among the candidates.
C11_ExactDensityPreferred ==
    (SelDone /\ SplitFiles(Range(sel.device.drawable)) # {}) =>
        /\ Installed \cap SplitFiles(DensityCodes) \subseteq SplitFiles(Range(sel.device.drawable))
        /\ Cardinality(Installed \cap SplitFiles(DensityCodes)) = 1

\* the tags of the ABI splits
AbiCodes == Range(_abi)

\* the first place of abilist whose ABI has a split among the candidates,
\* 0 when none has
FirstAbiWithSplit ==
    LET abilist == sel.device.abilist
        has == {k \in 1..Len(abilist) : SplitFiles({Replace(abilist[k])}) # {}}
    IN  IF has = {} THEN 0 ELSE CHOOSE k \in has : \A j \in has : k <= j

FlagCodes == AbiCodes \cup DensityCodes \cup LanguageCodes

\* the files of the candidates that carry no such tag
Unflagged ==
    {CandFile(sel.cands[k]) :
        k \in {j \in 1..Len(sel.cands) : \A t \in FlagCodes : ~IsSplitOf(sel.cands[j], t)}}

\* C13: every candidate that carries no ABI, density or language tag is in
\* the finished install list.
C13_UnflaggedAlwaysInstalled == SelDone => Unflagged \subseteq Installed

\* C13 witness: the selection finished with the base package among the
\* candidates while no candidate matched the device's ABI list, density or
\* locale.
C13_Witness ==
    /\ SelDone
    /\ Unflagged # {}
    /\ Installed = Unflagged
    /\ Len(sel.cands) > 1

\* the file of the candidate tagged t
TagFile(t) == IF sel.fmt = "apkm" THEN ApkmName(t) ELSE XapkEntry(t).file

\* C18: for the device of the scenario and its six candidates, in whatever
\* order they are listed, the selection completes and the install list holds
\* exactly the base package and the arm64_v8a, xxhdpi and en splits.
C18_ScenarioSelection ==
    /\ sel.phase # "raised"
    /\ SelDone =>
          /\ Installed = {TagFile(t) : t \in {"base", "arm64_v8a", "xxhdpi", "en"}}
          /\ Len(sel.install) = Len(install_start) + Cardinality(Installed)

\* C18 witness: the selection finished for a listing that has the fr split
\* before the en split and the armeabi_v7a split before the arm64_v8a split.
C18_Witness ==
    /\ SelDone
    /\ Len(sel.cands) = Cardinality(ScenarioTags)
    /\ CandFile(sel.cands[1]) = TagFile("fr")
    /\ CandFile(sel.cands[2]) = TagFile("armeabi_v7a")
    /\ TagFile("en") \in Installed

\* the bucket list of k
BucketOf(k) ==
    CASE k \in 0..3   -> <<"ldpi">>
      [] k = 4        -> <<"mdpi">>
      [] k \in 5..6   -> <<"tvdpi", "hdpi">>
      [] k \in 7..8   -> <<"xhdpi">>
      [] k \in 9..12  -> <<"xxhdpi">>
      [] k \in 13..16 -> <<"xxxhdpi">>
      [] OTHER        -> None

\* ceil(d / 40) of a positive d
Ceil40(d) == CHOOSE k \in 1..d : 40 * (k - 1) < d /\ d <= 40 * k

\* C19: the bucket list of a dpi is the one of k = int((dpi + 39) / 40):
\* 0..3 ldpi, 4 mdpi, 5..6 tvdpi then hdpi, 7..8 xhdpi, 9..12 xxhdpi, 13..16
\* xxxhdpi; for a dpi in 1..640 k is ceil(dpi / 40) and there is a list.
C19_DensityBuckets ==
    sel.phase = "bucket" =>
        /\ sel.drawable = BucketOf(IntDiv40(sel.dpi + 39))
        /\ sel.dpi \in 1..640 =>
              /\ sel.drawable = BucketOf(Ceil40(sel.dpi))
              /\ sel.drawable # None

\* C19 witness: dpi 480, the upper boundary k = 12, got the xxhdpi list.
C19_Witness ==
    /\ sel.phase = "bucket"
    /\ sel.dpi = 480
    /\ sel.drawable = <<"xxhdpi">>

\* C20: a device whose dpi gives no bucket list (k above 16 or below 0)
\* does not make the selection fail: the run goes on to the density cascade.
C20_OutOfRangeDpiSelects ==
    sel.device.drawable = None => sel.phase # "raised"

\* C21: every device of the list gets its install sequence, whatever the
\* outcome on the devices before it: main ends the run only where the device
\* loop finds no further device (or where no device is attached at all).
C21_EveryDeviceProcessed ==
    [][(stack[1].pc # "done" /\ stack'[1].pc = "done")
          => (Len(stack) = 1 /\ stack[1].pc \in {"start", "device"})]_vars

\* C22: when main has finished, by return, SystemExit or any other
\* exception, no staging path recorded in del_path is left on disk and the
\* working directory is the root the run started in.
C22_CleanupOnEveryExit ==
    sel.phase = "done" => (sel.fs = {} /\ sel.cwd = RootDir)

\* the keys whose value is non-empty and parses as an integer
Qualifying(props) == {k \in 1..Len(props) : int(props[k]).kind = "int"}

\* C23: the probe returns the integer of the first key, in the fixed order,
\* whose value is non-empty and parses, skipping the others; when no key
\* qualifies it fails with an error instead of returning a value.
C23_FirstParsableSdk ==
    sel.phase = "probed" =>
        IF Qualifying(sel.props) = {}
        THEN sel.sdk.kind \notin {"int", "None"}
        ELSE sel.sdk = int(sel.props[CHOOSE k \in Qualifying(sel.props) :
                                        \A j \in Qualifying(sel.props) : k <= j])

\* C24: in install_apk the flags go -rtd, then -r, then no flag: uninstall is
\* called only from the -r attempt, after one install with -rtd and one
\* with -r have failed and none without flags was made, and the install that
\* follows the uninstall carries no flags (-t only follows a flagless one).
C24_FlagOrder ==
    \A k \in 1..Len(stack) :
        stack[k].fn = "install_apk" =>
            LET f == stack[k]
            IN  /\ f.abc = "-rtd" => (f.cnt["-r"] = 0 /\ f.cnt[""] = 0 /\ f.cnt["-t"] = 0)
                /\ f.abc = "-r" => (f.cnt["-rtd"] = 1 /\ f.cnt[""] = 0 /\ f.cnt["-t"] = 0)
                /\ f.pc = "ret_uninstall" => (f.abc = "-r" /\ f.cnt["-rtd"] = 1 /\ f.cnt["-r"] = 1)
                /\ f.abc = "" => (f.cnt["-rtd"] = 1 /\ f.cnt["-r"] = 1 /\ f.cnt["-t"] = 0)
                /\ f.abc = "-t" => f.cnt[""] >= 1

\* C24 witness: after a successful uninstall the flagless install was issued
\* by an install_apk that had tried -rtd and -r.
C24_Witness ==
    /\ Running("install_apk", "checks")
    /\ cmd.name = "install" /\ cmd.flag = "" /\ cmd.rc # 0
    /\ hist.unin = "removed"
    /\ Top.cnt["-rtd"] = 1 /\ Top.cnt["-r"] = 1 /\ Top.cnt[""] = 1

\* the installed package's primaryCpuAbi line says arm64-v8a
InstalledArm64 ==
    \E k \in 1..Len(sel.lines) :
        sel.lines[k].key = "primaryCpuAbi" /\ sel.lines[k].abi = "arm64-v8a"

\* C25: with arm64-v8a installed and a package whose non-empty ABI set lacks
\* arm64-v8a, the install goes on only after the operator was asked about
\* the 64-bit to 32-bit change and agreed.
C25_AbiChangeConfirmed ==
    (sel.phase = "checked" /\ InstalledArm64
        /\ sel.abis # <<>> /\ "arm64-v8a" \notin Range(sel.abis))
      => (sel.exit = "return" => ("abi" \in sel.asked /\ sel.answer["abi"] = "y"))

\* C26: main's result is truthy only when the last install command
\* returned exit status zero: a result that is the outcome of a failed
\* install command is not counted as a success.
C26_TruthyOnlyAfterSuccess ==
    (Done /\ Truthy(stack[1].result) /\ HasReturncode(stack[1].result))
        => stack[1].result.rc = 0

\* C27: for an apkm, every file named in the install-multiple command has
\* been extracted into the staging directory when the command is issued.
C27_InstallFilesExtracted ==
    sel.phase = "extracted" =>
        \A k \in (Len(install_start) + 1)..Len(sel.install) : sel.install[k] \in sel.extracted

\* the listings of the same candidates in every order
Reorderings(s) == {[k \in 1..Len(s) |-> s[f[k]]] : f \in Permutations(1..Len(s))}

\* the files of an install list
FilesOf(install) == {install[k] : k \in (Len(install_start) + 1)..Len(install)}

\* C28: the selected files depend on the device profile and on the set of
\* candidates only: every listing order of the same candidates selects the
\* same files.
C28_OrderIndependent ==
    SelDone =>
        \A q \in Reorderings(sel.cands) :
            LET r == SelectInstall(sel.fmt, sel.device, q)
            IN  r # Raised /\ FilesOf(r) = FilesOf(sel.install)

\* the candidate list names no file twice
CandsDistinct ==
    \A j, k \in 1..Len(sel.cands) : j # k => CandFile(sel.cands[j]) # CandFile(sel.cands[k])

\* C29: the finished install list holds at most one ABI split, at most one
\* density split and at most one language split, and names no file twice.
C29_AtMostOneSplitPerKind ==
    (SelDone /\ CandsDistinct) =>
        /\ Cardinality(Installed \cap SplitFiles(AbiCodes)) <= 1
        /\ Cardinality(Installed \cap SplitFiles(DensityCodes)) <= 1
        /\ Cardinality(Installed \cap SplitFiles(LanguageCodes)) <= 1
        /\ Len(sel.install) = Len(install_start) + Cardinality(Installed)

====
